---- MODULE Spec2Model ----
(***************************************************************************)
(* A model of Secret_santa.py: the roster reader (_read_people), the       *)
(* history reader (_read_history_files), the constraint builder            *)
(* (_build_allowed), the randomized MRV backtracking matcher               *)
(* (_solve_perfect_matching with its nested backtrack) and main.           *)
(*                                                                         *)
(* Names are sequences of one-character strings, so that the text          *)
(* conversions of the program (writing "Giver -> Receiver" lines, and       *)
(* splitting them again) are computed and not assumed.  Python's None is   *)
(* the empty sequence where the program holds a name or None (a name is    *)
(* never empty: line 53 drops empty parts), and the record NoneVal where   *)
(* the program holds a dict or None.                                       *)
(***************************************************************************)
EXTENDS Integers, Sequences, FiniteSets, TLC

VARIABLES
    \* ---- the process's position
    pc,
    \* ---- _solve_perfect_matching: parameters and locals
    names, allowed, seed, max_tries, rng, givers, attempt,
    \* ---- backtrack: the call stack, the pending call and the shared dict
    stack, arg, assignments, out,
    \* ---- a second run of the same solve (same seed, same inputs)
    run, prevOut,
    \* ---- main: the files it reads and writes, and its locals
    peopleExists, raw_pairs, spouse, files, year, years_back,
    disallow_recent, report

solverVars == <<names, allowed, seed, max_tries, rng, givers, attempt,
                stack, arg, assignments, out>>
mainVars == <<peopleExists, raw_pairs, spouse, files, year, years_back,
              disallow_recent, report>>
vars == <<pc, solverVars, run, prevOut, mainVars>>

----------------------------------------------------------------------------
(* Bounds of the model *)

\* max_tries is drawn from 0..MaxTries
MaxTries == 2
\* the seed is drawn from 0..MaxSeed
MaxSeed == 1
\* --years is drawn from 0..MaxYearsBack
MaxYearsBack == 2
\* the roster file holds at most MaxRecords records
MaxRecords == 3

----------------------------------------------------------------------------
(* Values *)

Ann == <<"A">>
Bob == <<"B">>
Cy == <<"C">>
JL == <<"J", "-", "L">>
\* a name that is on no roster
Zed == <<"Z">>

People == {Ann, Bob, JL}

\* None, where the program holds a name or None
NoName == <<>>
\* None, where the program holds a dict or None
NoneVal == [none |-> TRUE]
Some(d) == [dict |-> d]
IsNone(v) == "none" \in DOMAIN v

EmptyDict == [x \in {} |-> NoName]
SetItem(d, k, v) == [x \in (DOMAIN d) \cup {k} |-> IF x = k THEN v ELSE d[x]]
DelItem(d, k) == [x \in (DOMAIN d) \ {k} |-> d[x]]

ToSet(s) == {s[i] : i \in 1..Len(s)}
\* every listing of the set S: the orders in which a set may be iterated
Orderings(S) == {s \in [1..Cardinality(S) -> S] : ToSet(s) = S}

----------------------------------------------------------------------------
(* random.Random: a deterministic generator.  The state after seeding is   *)
(* the seed; each draw advances the state.  A full-period congruential    *)
(* generator stands for the Mersenne Twister: what the program relies on   *)
(* is only that the draws are a function of the seed.                      *)

RngNext(s) == (5 * s + 3) % 16
\* the next draw of _randbelow(n), from the state after advancing
RandBelow(s, n) == (RngNext(s) * n) \div 16

Swap(x, i, j) == [x EXCEPT ![i] = x[j], ![j] = x[i]]

\* random.shuffle(x): for i in reversed(range(1, len(x))): j = randbelow(i+1);
\* x[i], x[j] = x[j], x[i].  Positions here are 1-based.
RECURSIVE ShuffleFrom(_, _, _)
ShuffleFrom(x, i, s) ==
    IF i < 2 THEN [list |-> x, rng |-> s]
    ELSE ShuffleFrom(Swap(x, i, RandBelow(s, i) + 1), i - 1, RngNext(s))

Shuffle(x, s) == ShuffleFrom(x, Len(x), s)

----------------------------------------------------------------------------
(* backtrack: the pure parts *)

\* a slip: the receivers already taken are not removed
OptionsOfAnyReceiver(al, g, avail) == al[g]

\* allowed[gg] & available_receivers
OptionsOf(al, g, avail) == al[g] \cap avail

\* a slip: the first remaining giver, whatever its options
MRVGiverFirst(al, rem, avail) == rem[1]

\* min(remaining_givers, key=...): the first giver of the list with the
\* fewest options
MRVGiver(al, rem, avail) ==
    LET key(i) == Cardinality(OptionsOf(al, rem[i], avail))
        best == CHOOSE i \in 1..Len(rem) :
                    /\ \A j \in 1..Len(rem) : key(i) <= key(j)
                    /\ \A j \in 1..(i - 1) : key(j) > key(i)
    IN rem[best]

\* [gg for gg in remaining_givers if gg != giver]
NextGivers(rem, g) == SelectSeq(rem, LAMBDA gg : gg # g)

\* a slip: return None after the first option failed
MoreOptionsFirstOnly(fr) == fr.i <= 1 /\ fr.i <= Len(fr.options)

\* for r in options: the loop of frame fr has an option left to try
MoreOptions(fr) == fr.i <= Len(fr.options)

\* for g in givers: if not allowed[g]: return None
HasEmptyAllowed(ns, al) == \E i \in 1..Len(ns) : al[ns[i]] = {}

----------------------------------------------------------------------------
(* _solve_perfect_matching, step by step *)

Pending == [pending |-> TRUE]
NoArg == [rem |-> <<>>, avail |-> {}]
Top == stack[Len(stack)]
Pop(st) == SubSeq(st, 1, Len(st) - 1)

\* the value returned at line 153 (quick unsat check)
UnsatReturn == NoneVal
\* the value returned at line 191 (every attempt failed)
ExhaustedReturn == NoneVal

\* lines 147-153: givers = list(names); an empty allowed set returns at once
SolveUnsat ==
    /\ pc = "solve_entry"
    /\ HasEmptyAllowed(names, allowed)
    /\ givers' = names
    /\ out' = UnsatReturn
    /\ pc' = "ret_unsat"
    /\ UNCHANGED <<names, allowed, seed, max_tries, rng, attempt, stack, arg,
                   assignments, run, prevOut, mainVars>>

SolveBegin ==
    /\ pc = "solve_entry"
    /\ ~HasEmptyAllowed(names, allowed)
    /\ givers' = names
    /\ pc' = "loop"
    /\ UNCHANGED <<names, allowed, seed, max_tries, rng, attempt, stack, arg,
                   assignments, out, run, prevOut, mainVars>>

\* lines 185-188: one more attempt: shuffle givers in place, call backtrack
StartAttempt ==
    /\ pc = "loop"
    /\ attempt < max_tries
    /\ LET sh == Shuffle(givers, rng)
       IN /\ givers' = sh.list
          /\ rng' = sh.rng
          /\ arg' = [rem |-> sh.list, avail |-> ToSet(names)]
    /\ attempt' = attempt + 1
    /\ assignments' = EmptyDict
    /\ pc' = "call"
    /\ UNCHANGED <<names, allowed, seed, max_tries, stack, out, run, prevOut,
                   mainVars>>

\* line 191: the loop is over
Exhausted ==
    /\ pc = "loop"
    /\ attempt >= max_tries
    /\ out' = ExhaustedReturn
    /\ pc' = "ret_exhausted"
    /\ UNCHANGED <<names, allowed, seed, max_tries, rng, givers, attempt,
                   stack, arg, assignments, run, prevOut, mainVars>>

\* lines 160-161 and 178-179, 189-190: no giver is left; every caller
\* returns the dict at once
BtSuccess ==
    /\ pc = "call"
    /\ arg.rem = <<>>
    /\ out' = Some(assignments)
    /\ stack' = <<>>
    /\ arg' = NoArg
    /\ pc' = "ret_ok"
    /\ UNCHANGED <<names, allowed, seed, max_tries, rng, givers, attempt,
                   assignments, run, prevOut, mainVars>>

\* lines 164-170: the MRV giver has no option: return None
BtDeadEnd ==
    /\ pc = "call"
    /\ arg.rem # <<>>
    /\ OptionsOf(allowed, MRVGiver(allowed, arg.rem, arg.avail), arg.avail) = {}
    /\ arg' = NoArg
    /\ pc' = "returned_none"
    /\ UNCHANGED <<names, allowed, seed, max_tries, rng, givers, attempt,
                   stack, assignments, out, run, prevOut, mainVars>>

\* lines 164-174: the options, listed in the set's iteration order (any
\* order: the hash of a str differs from one process to the next), then
\* shuffled
BtBranch ==
    /\ pc = "call"
    /\ arg.rem # <<>>
    /\ LET giver == MRVGiver(allowed, arg.rem, arg.avail)
           opts == OptionsOf(allowed, giver, arg.avail)
       IN /\ opts # {}
          /\ \E ord \in Orderings(opts) :
                LET sh == Shuffle(ord, rng)
                IN /\ rng' = sh.rng
                   /\ stack' = Append(stack, [rem |-> arg.rem,
                                              avail |-> arg.avail,
                                              giver |-> giver,
                                              options |-> sh.list,
                                              i |-> 1])
    /\ arg' = NoArg
    /\ pc' = "iter"
    /\ UNCHANGED <<names, allowed, seed, max_tries, givers, attempt,
                   assignments, out, run, prevOut, mainVars>>

\* lines 175-177: commit the next option and recurse
TryOption ==
    /\ pc = "iter"
    /\ MoreOptions(Top)
    /\ LET r == Top.options[Top.i]
       IN /\ assignments' = SetItem(assignments, Top.giver, r)
          /\ arg' = [rem |-> NextGivers(Top.rem, Top.giver),
                     avail |-> Top.avail \ {r}]
    /\ pc' = "call"
    /\ UNCHANGED <<names, allowed, seed, max_tries, rng, givers, attempt,
                   stack, out, run, prevOut, mainVars>>

\* line 182: every option was tried: return None
OptionsDone ==
    /\ pc = "iter"
    /\ ~MoreOptions(Top)
    /\ stack' = Pop(stack)
    /\ pc' = "returned_none"
    /\ UNCHANGED <<names, allowed, seed, max_tries, rng, givers, attempt,
                   arg, assignments, out, run, prevOut, mainVars>>

\* a slip: the loop does not advance to the next r after the undo
UndoSameOption ==
    /\ pc = "returned_none"
    /\ stack # <<>>
    /\ assignments' = DelItem(assignments, Top.giver)
    /\ pc' = "iter"
    /\ UNCHANGED <<names, allowed, seed, max_tries, rng, givers, attempt,
                   stack, arg, out, run, prevOut, mainVars>>

\* lines 178-181: the callee returned None: del assignments[giver], next r
Undo ==
    /\ pc = "returned_none"
    /\ stack # <<>>
    /\ assignments' = DelItem(assignments, Top.giver)
    /\ stack' = [stack EXCEPT ![Len(stack)].i = @ + 1]
    /\ pc' = "iter"
    /\ UNCHANGED <<names, allowed, seed, max_tries, rng, givers, attempt,
                   arg, out, run, prevOut, mainVars>>

\* lines 188-189: the attempt's outermost call returned None
AttemptFailed ==
    /\ pc = "returned_none"
    /\ stack = <<>>
    /\ pc' = "loop"
    /\ UNCHANGED <<names, allowed, seed, max_tries, rng, givers, attempt,
                   stack, arg, assignments, out, run, prevOut, mainVars>>

SolveSearch ==
    \/ SolveBegin
    \/ StartAttempt
    \/ Exhausted
    \/ BtSuccess
    \/ BtDeadEnd
    \/ BtBranch
    \/ TryOption
    \/ OptionsDone
    \/ Undo
    \/ AttemptFailed

SolveStep == SolveUnsat \/ SolveSearch

Returned == pc \in {"ret_unsat", "ret_exhausted", "ret_ok"}

----------------------------------------------------------------------------
(* The solver called on any roster and any allowed mapping *)

Roster == <<Ann, Bob, JL>>
\* the rosters: the prefixes of Roster
Rosters == {SubSeq(Roster, 1, n) : n \in 0..Len(Roster)}

NoReport == [kind |-> "none", who |-> <<>>]

MainIdle ==
    /\ peopleExists = TRUE
    /\ raw_pairs = <<>>
    /\ spouse = EmptyDict
    /\ files = EmptyDict
    /\ year = 2024
    /\ years_back = 0
    /\ disallow_recent = EmptyDict
    /\ report = NoReport

SolverIdle ==
    /\ givers = <<>>
    /\ attempt = 0
    /\ stack = <<>>
    /\ arg = NoArg
    /\ assignments = EmptyDict
    /\ out = Pending

Init ==
    /\ pc = "solve_entry"
    /\ names \in Rosters
    /\ allowed \in [ToSet(names) -> SUBSET People]
    /\ seed \in 0..MaxSeed
    /\ max_tries \in 0..MaxTries
    /\ rng = seed
    /\ SolverIdle
    /\ run = 1
    /\ prevOut = Pending
    /\ MainIdle

Next == SolveStep

Spec == Init /\ [][Next]_vars

\* The solver is one synchronous, single-threaded call (no suspension
\* point, no other thread): while a statement is left to run, the
\* interpreter runs it.
SpecLive == Init /\ [][Next]_vars /\ WF_vars(Next)

----------------------------------------------------------------------------
(* Text: the lines main writes and _read_history_files splits *)

\* the characters of the model, in code point order
Alphabet == <<" ", "#", ",", "-", ":", ">", "A", "B", "C", "J", "L", "Z">>
Rank(c) == CHOOSE i \in 1..Len(Alphabet) : Alphabet[i] = c

\* a < b for str: the first differing character decides, a prefix is less
RECURSIVE StrLess(_, _)
StrLess(a, b) ==
    IF b = <<>> THEN FALSE
    ELSE IF a = <<>> THEN TRUE
    ELSE IF Head(a) # Head(b) THEN Rank(Head(a)) < Rank(Head(b))
    ELSE StrLess(Tail(a), Tail(b))

\* sorted(S) for a set of str
RECURSIVE Sorted(_)
Sorted(S) ==
    IF S = {} THEN <<>>
    ELSE LET m == CHOOSE x \in S : \A y \in S \ {x} : StrLess(x, y)
         IN <<m>> \o Sorted(S \ {m})

\* f"{giver} -> {matching[giver]}"
FormatLine(g, r) == g \o <<" ", "-", ">", " ">> \o r

\* lines 248-254: three comment lines, then one line per giver, sorted.
\* The comment lines are abbreviated; what is read of them is the "#".
OutputLines(m) ==
    LET gs == Sorted(DOMAIN m)
    IN <<(<<"#", "A">>), (<<"#", "B">>), (<<"#", "C">>)>>
          \o [i \in 1..Len(gs) |-> FormatLine(gs[i], m[gs[i]])]

\* str.strip(): the white space of the model is the blank
RECURSIVE LStrip(_)
LStrip(s) == IF s # <<>> /\ Head(s) = " " THEN LStrip(Tail(s)) ELSE s
RECURSIVE RStrip(_)
RStrip(s) ==
    IF s # <<>> /\ s[Len(s)] = " " THEN RStrip(SubSeq(s, 1, Len(s) - 1)) ELSE s
Strip(s) == RStrip(LStrip(s))

\* the number of blanks of s from position p on
RECURSIVE SpaceRun(_, _)
SpaceRun(s, p) ==
    IF p <= Len(s) /\ s[p] = " " THEN 1 + SpaceRun(s, p + 1) ELSE 0

\* (?:->|:|,|-) at position p: the length matched, 0 for no match
SepLenAt(s, p) ==
    IF p > Len(s) THEN 0
    ELSE IF s[p] = "-" /\ p < Len(s) /\ s[p + 1] = ">" THEN 2
    ELSE IF s[p] \in {":", ",", "-"} THEN 1
    ELSE 0

\* _LINE_SEP_RE, \s*(?:->|:|,|-)\s*, matched at position p: the position
\* after the match, 0 for no match
MatchEnd(s, p) ==
    LET k == SpaceRun(s, p)
        n == SepLenAt(s, p + k)
    IN IF n = 0 THEN 0 ELSE p + k + n + SpaceRun(s, p + k + n)

\* _LINE_SEP_RE.split(s): the pieces between the matches, left to right
RECURSIVE SplitFrom(_, _, _, _)
SplitFrom(s, p, start, parts) ==
    IF p > Len(s) THEN Append(parts, SubSeq(s, start, Len(s)))
    ELSE LET e == MatchEnd(s, p)
         IN IF e = 0 THEN SplitFrom(s, p + 1, start, parts)
            ELSE SplitFrom(s, e, e, Append(parts, SubSeq(s, start, p - 1)))

Split(s) == SplitFrom(s, 1, 1, <<>>)

\* lines 104-113: the pairs one line adds to disallow: at most one
LinePairs(ln) ==
    LET s == Strip(ln)
        parts == Split(s)
    IN IF s = <<>> \/ Head(s) = "#" THEN {}
       ELSE IF Len(parts) # 2 THEN {}
       ELSE IF Strip(parts[1]) # <<>> /\ Strip(parts[2]) # <<>>
            THEN {<<Strip(parts[1]), Strip(parts[2])>>}
       ELSE {}

FilePairs(lines) == UNION {LinePairs(lines[i]) : i \in 1..Len(lines)}

----------------------------------------------------------------------------
(* _read_history_files *)

\* lines 88-97: the year files before current_year, most recent first
RECURSIVE SortDesc(_)
SortDesc(S) ==
    IF S = {} THEN <<>>
    ELSE LET m == CHOOSE x \in S : \A y \in S : y <= x
         IN <<m>> \o SortDesc(S \ {m})

\* seq[:n]
SliceTo(seq, n) ==
    IF n >= 0 THEN SubSeq(seq, 1, IF n < Len(seq) THEN n ELSE Len(seq))
    ELSE SubSeq(seq, 1, IF Len(seq) + n > 0 THEN Len(seq) + n ELSE 0)

\* lines 88-98: the years whose files are read
WindowYears(dir, current_year, n) ==
    SliceTo(SortDesc({y \in DOMAIN dir : y < current_year}), n)

\* lines 100-114: disallow[giver] = the receivers of the giver's lines
ReadHistory(dir, current_year, n) ==
    LET ys == WindowYears(dir, current_year, n)
        pairs == UNION {FilePairs(dir[ys[i]]) : i \in 1..Len(ys)}
    IN [g \in {pr[1] : pr \in pairs} |-> {pr[2] : pr \in {q \in pairs : q[1] = g}}]

\* dict.get(k, default)
Get(d, k, default) == IF k \in DOMAIN d THEN d[k] ELSE default

----------------------------------------------------------------------------
(* _read_people, from the records of the file on (lines 61-79) *)

Rec(n, s) == [name |-> n, spouse |-> s]

\* lines 62-67: the names, unique, in first-seen order
RECURSIVE UniqueNames(_, _)
UniqueNames(pairs, acc) ==
    IF pairs = <<>> THEN acc
    ELSE UniqueNames(Tail(pairs),
                     IF Head(pairs).name \in ToSet(acc) THEN acc
                     ELSE Append(acc, Head(pairs).name))

\* a slip: the inferred entry is written over whatever is there
SpouseStepOverride(sp, r, name_set) ==
    IF r.spouse # NoName /\ r.spouse \in name_set
    THEN [[sp EXCEPT ![r.name] = r.spouse] EXCEPT ![r.spouse] = r.name]
    ELSE sp

\* lines 73-77: one record's effect on the spouse map
SpouseStep(sp, r, name_set) ==
    IF r.spouse # NoName /\ r.spouse \in name_set
    THEN LET sp1 == [sp EXCEPT ![r.name] = r.spouse]
         IN IF sp1[r.spouse] = NoName
            THEN [sp1 EXCEPT ![r.spouse] = r.name]
            ELSE sp1
    ELSE sp

RECURSIVE SpouseFold(_, _, _)
SpouseFold(pairs, sp, name_set) ==
    IF pairs = <<>> THEN sp
    ELSE SpouseFold(Tail(pairs), SpouseStep(sp, Head(pairs), name_set), name_set)

\* lines 70-79
SpouseMap(pairs) ==
    LET ns == ToSet(UniqueNames(pairs, <<>>))
    IN SpouseFold(pairs, [n \in ns |-> NoName], ns)

----------------------------------------------------------------------------
(* _build_allowed *)

\* a slip: the spouse is not excluded
BuildAllowedNoSpouse(ns, sp, dis) ==
    [g \in ToSet(ns) |-> ToSet(ns) \ ({g} \cup Get(dis, g, {}))]

\* lines 126-135
BuildAllowed(ns, sp, dis) ==
    [g \in ToSet(ns) |->
        ToSet(ns) \ ({g} \cup (IF sp[g] # NoName THEN {sp[g]} ELSE {})
                         \cup Get(dis, g, {}))]

----------------------------------------------------------------------------
(* main *)

\* sys.exit(message): the kind of the message and the participants it lists
Exit(kind, who) ==
    /\ pc' = "exit"
    /\ report' = [kind |-> kind, who |-> who]

\* lines 42-43
MainNoPeopleFile ==
    /\ pc = "main_start"
    /\ ~peopleExists
    /\ Exit("no_people_file", <<>>)
    /\ UNCHANGED <<solverVars, run, prevOut, peopleExists, raw_pairs, spouse,
                   files, year, years_back, disallow_recent>>

\* line 218
MainReadPeople ==
    /\ pc = "main_start"
    /\ peopleExists
    /\ names' = UniqueNames(raw_pairs, <<>>)
    /\ spouse' = SpouseMap(raw_pairs)
    /\ pc' = "main_people"
    /\ UNCHANGED <<allowed, seed, max_tries, rng, givers, attempt, stack, arg,
                   assignments, out, run, prevOut, peopleExists, raw_pairs,
                   files, year, years_back, disallow_recent, report>>

\* lines 219-220
MainTooFew ==
    /\ pc = "main_people"
    /\ Len(names) < 2
    /\ Exit("too_few", <<>>)
    /\ UNCHANGED <<solverVars, run, prevOut, peopleExists, raw_pairs, spouse,
                   files, year, years_back, disallow_recent>>

\* line 225
MainReadHistory ==
    /\ pc = "main_people"
    /\ Len(names) >= 2
    /\ disallow_recent' = ReadHistory(files, year, years_back)
    /\ pc' = "main_history"
    /\ UNCHANGED <<solverVars, run, prevOut, peopleExists, raw_pairs, spouse,
                   files, year, years_back, report>>

\* line 228
MainBuildAllowed ==
    /\ pc = "main_history"
    /\ allowed' = BuildAllowed(names, spouse, disallow_recent)
    /\ pc' = "main_allowed"
    /\ UNCHANGED <<names, seed, max_tries, rng, givers, attempt, stack, arg,
                   assignments, out, run, prevOut, mainVars>>

\* a slip: only the first participant without a receiver is listed
ImpossibleFirstOnly ==
    LET all == SelectSeq(names, LAMBDA g : allowed[g] = {})
    IN IF all = <<>> THEN <<>> ELSE <<all[1]>>

\* line 231: [g for g in names if not allowed[g]]
Impossible == SelectSeq(names, LAMBDA g : allowed[g] = {})

\* lines 232-237
MainImpossible ==
    /\ pc = "main_allowed"
    /\ Impossible # <<>>
    /\ Exit("impossible", Impossible)
    /\ UNCHANGED <<solverVars, run, prevOut, peopleExists, raw_pairs, spouse,
                   files, year, years_back, disallow_recent>>

\* line 240: the call of _solve_perfect_matching
MainSolve ==
    /\ pc = "main_allowed"
    /\ Impossible = <<>>
    /\ pc' = "solve_entry"
    /\ UNCHANGED <<solverVars, run, prevOut, mainVars>>

\* a slip: the output file is opened for writing before the solve
MainSearchFailedTruncates ==
    /\ pc \in {"ret_unsat", "ret_exhausted"}
    /\ Exit("search_failed", <<>>)
    /\ files' = SetItem(files, year, <<>>)
    /\ UNCHANGED <<solverVars, run, prevOut, peopleExists, raw_pairs, spouse,
                   year, years_back, disallow_recent>>

\* lines 241-245: matching is None
MainSearchFailed ==
    /\ pc \in {"ret_unsat", "ret_exhausted"}
    /\ Exit("search_failed", <<>>)
    /\ UNCHANGED <<solverVars, run, prevOut, peopleExists, raw_pairs, spouse,
                   files, year, years_back, disallow_recent>>

\* lines 247-257: out_path.write_text(...)
MainWrite ==
    /\ pc = "ret_ok"
    /\ files' = SetItem(files, year, OutputLines(out.dict))
    /\ pc' = "written"
    /\ UNCHANGED <<solverVars, run, prevOut, peopleExists, raw_pairs, spouse,
                   year, years_back, disallow_recent, report>>

MainStep ==
    \/ MainNoPeopleFile
    \/ MainReadPeople
    \/ MainTooFew
    \/ MainReadHistory
    \/ MainBuildAllowed
    \/ MainImpossible
    \/ MainSolve
    \/ MainSearchFailed
    \/ MainWrite

MainDone == pc \in {"exit", "written"}

\* the years of the model
Years == {2024, 2025, 2026}

\* lines 259-260, 212-214: the script is run again the year after, on the
\* same roster and with the same options, in the directory as it is now
NextYear ==
    /\ MainDone
    /\ year + 1 \in Years
    /\ year' = year + 1
    /\ pc' = "main_start"
    /\ names' = <<>>
    /\ allowed' = EmptyDict
    /\ rng' = seed
    /\ givers' = <<>>
    /\ attempt' = 0
    /\ stack' = <<>>
    /\ arg' = NoArg
    /\ assignments' = EmptyDict
    /\ out' = Pending
    /\ spouse' = EmptyDict
    /\ disallow_recent' = EmptyDict
    /\ report' = NoReport
    /\ UNCHANGED <<seed, max_tries, run, prevOut, peopleExists, raw_pairs,
                   files, years_back>>

\* the roster files of the model, as records
MainRosters ==
    { <<>>,
      <<Rec(Ann, NoName)>>,
      <<Rec(Ann, Bob), Rec(Bob, Ann)>>,
      <<Rec(Ann, NoName), Rec(Bob, NoName)>>,
      <<Rec(Ann, NoName), Rec(JL, NoName)>>,
      <<Rec(Ann, NoName), Rec(Bob, NoName), Rec(Cy, NoName)>>,
      <<Rec(Ann, NoName), Rec(Bob, NoName), Rec(JL, NoName)>>,
      <<Rec(Ann, Bob), Rec(Bob, NoName), Rec(JL, NoName)>>,
      <<Rec(Ann, Bob), Rec(Bob, NoName), Rec(Cy, JL), Rec(JL, Zed)>>,
      <<Rec(Ann, NoName), Rec(Bob, NoName), Rec(Cy, NoName), Rec(JL, NoName)>> }

\* a hand-written file of an earlier year: a comment, "A : B", "B,C", a
\* blank line and a line with no receiver
OldFile ==
    << <<"#", "A">>, <<"A", " ", ":", " ", "B">>, <<"B", ",", "C">>, <<>>,
       <<"A", "-", ">">> >>

\* the directory before the first run: empty, with a file of an earlier
\* year, or with a file of the output's name already there
InitDirs ==
    { EmptyDict,
      [y \in {2023} |-> OldFile],
      [y \in {2024} |-> <<FormatLine(Zed, Zed)>>] }

InitMain ==
    /\ pc = "main_start"
    /\ peopleExists \in BOOLEAN
    /\ raw_pairs \in MainRosters
    /\ files \in InitDirs
    /\ year = 2024
    /\ years_back \in 0..MaxYearsBack
    /\ seed \in 0..MaxSeed
    /\ max_tries \in 0..MaxTries
    /\ ~peopleExists =>
          (raw_pairs = <<>> /\ years_back = 0 /\ seed = 0 /\ max_tries = 0)
    /\ names = <<>>
    /\ allowed = EmptyDict
    /\ rng = seed
    /\ SolverIdle
    /\ run = 1
    /\ prevOut = Pending
    /\ spouse = EmptyDict
    /\ disallow_recent = EmptyDict
    /\ report = NoReport

NextMain == MainStep \/ SolveSearch \/ NextYear

SpecMain == InitMain /\ [][NextMain]_vars

\* main with every step of the solver, the quick unsat check included
NextMainFull == MainStep \/ SolveStep \/ NextYear
SpecMainFull == InitMain /\ [][NextMainFull]_vars

\* main never calls the solver on an empty allowed set (lines 231-237), so
\* the solver's own check never returns under main
MainNeverUnsatReturn == pc # "ret_unsat"

----------------------------------------------------------------------------
(* _read_people on any records, and _read_history_files on any directory *)

Records == {Rec(n, s) : n \in {Ann, Bob, Cy}, s \in {NoName, Ann, Bob, Cy, Zed}}

RECURSIVE SeqsUpTo(_, _)
SeqsUpTo(S, n) ==
    IF n = 0 THEN {<<>>}
    ELSE LET shorter == SeqsUpTo(S, n - 1)
         IN shorter \cup {Append(q, x) : q \in shorter, x \in S}

InitPeople ==
    /\ pc = "people_start"
    /\ raw_pairs \in SeqsUpTo(Records, MaxRecords)
    /\ names = <<>>
    /\ allowed = EmptyDict
    /\ seed = 0
    /\ max_tries = 0
    /\ rng = 0
    /\ SolverIdle
    /\ run = 1
    /\ prevOut = Pending
    /\ peopleExists = TRUE
    /\ spouse = EmptyDict
    /\ files = EmptyDict
    /\ year = 2024
    /\ years_back = 0
    /\ disallow_recent = EmptyDict
    /\ report = NoReport

\* lines 61-79
ReadPeople ==
    /\ pc = "people_start"
    /\ names' = UniqueNames(raw_pairs, <<>>)
    /\ spouse' = SpouseMap(raw_pairs)
    /\ pc' = "people_done"
    /\ UNCHANGED <<allowed, seed, max_tries, rng, givers, attempt, stack, arg,
                   assignments, out, run, prevOut, peopleExists, raw_pairs,
                   files, year, years_back, disallow_recent, report>>

SpecPeople == InitPeople /\ [][ReadPeople]_vars

----------------------------------------------------------------------------
(* A second run of the same command line: the same seed, the same inputs   *)

\* lines 259-260, 212: the script is started again; rng = Random(seed)
Rerun ==
    /\ Returned
    /\ run = 1
    /\ run' = 2
    /\ prevOut' = out
    /\ pc' = "solve_entry"
    /\ rng' = seed
    /\ givers' = <<>>
    /\ attempt' = 0
    /\ stack' = <<>>
    /\ arg' = NoArg
    /\ assignments' = EmptyDict
    /\ out' = Pending
    /\ UNCHANGED <<names, allowed, seed, max_tries, mainVars>>

NextRerun == SolveStep \/ Rerun

SpecRerun == Init /\ [][NextRerun]_vars

----------------------------------------------------------------------------
(* backtrack as a function: whether the call returns None.  The for loop   *)
(* of lines 175-181 returns None exactly when every option's recursive     *)
(* call does, whatever the order of the options.                           *)

RECURSIVE BacktrackFails(_, _, _)
BacktrackFails(al, rem, avail) ==
    /\ rem # <<>>
    /\ LET g == MRVGiver(al, rem, avail)
       IN \A r \in OptionsOf(al, g, avail) :
              BacktrackFails(al, NextGivers(rem, g), avail \ {r})

\* the stepwise model and the function agree on every attempt
BacktrackFailsAgrees ==
    /\ (pc = "returned_none" /\ stack = <<>>)
          => BacktrackFails(allowed, givers, ToSet(names))
    /\ pc = "ret_ok" => ~BacktrackFails(allowed, givers, ToSet(names))

----------------------------------------------------------------------------
(* Claims about the solver *)

Values(d) == {d[x] : x \in DOMAIN d}

\* a valid assignment exists: a bijection of the participants within allowed
SolutionExists(ns, al) ==
    \E f \in [ToSet(ns) -> ToSet(ns)] :
        /\ \A g \in ToSet(ns) : f[g] \in al[g]
        /\ \A g, h \in ToSet(ns) : f[g] = f[h] => g = h

IsBijection(d, S) ==
    /\ DOMAIN d = S
    /\ \A p \in S : Cardinality({g \in DOMAIN d : d[g] = p}) = 1

\* C1: whenever _solve_perfect_matching returns an assignment (not None),
\* its keys are exactly the participants and every participant is the
\* receiver of exactly one giver.
C1_Bijection ==
    (Returned /\ ~IsNone(out)) => IsBijection(out.dict, ToSet(names))

\* a solve of a three-person roster that returned an assignment
C1_Witness ==
    /\ pc = "ret_ok"
    /\ ~IsNone(out)
    /\ Len(names) = 3

\* C4: the solver's failure result tells the two kinds apart: what is
\* returned for an empty allowed set is not what is returned when every
\* attempt failed; and a failure carries no assignment.
C4_Distinguishable ==
    /\ pc = "ret_unsat" => out # ExhaustedReturn
    /\ pc = "ret_exhausted" => out # UnsatReturn
    /\ pc \in {"ret_unsat", "ret_exhausted"} => IsNone(out)

\* C5: a second run with the same seed, the same participants in the same
\* order and the same allowed sets returns what the first run returned.
C5_Deterministic ==
    (run = 2 /\ Returned) => out = prevOut

NumOptions(g, avail) == Cardinality(allowed[g] \cap avail)

C10_Step ==
    \* a call on some remaining givers: those are the unassigned givers, and
    \* the available receivers are the participants not yet committed
    /\ (pc = "call" /\ arg.rem # <<>>)
          => /\ arg.avail = ToSet(names) \ Values(assignments)
             /\ ToSet(arg.rem) = ToSet(names) \ DOMAIN assignments
    \* the giver branched on has the fewest options of the remaining givers
    /\ (pc = "call" /\ pc' = "iter")
          => /\ Top'.giver \in ToSet(arg.rem)
             /\ \A g \in ToSet(arg.rem) :
                    NumOptions(Top'.giver, arg.avail) <= NumOptions(g, arg.avail)
             /\ ToSet(Top'.options) = allowed[Top'.giver] \cap arg.avail
    \* zero options: the branch fails
    /\ (pc = "call" /\ arg.rem # <<>>
           /\ \E g \in ToSet(arg.rem) : NumOptions(g, arg.avail) = 0)
          => /\ pc' = "returned_none"
             /\ UNCHANGED <<stack, assignments>>
    \* a failed branch: the caller's commitment, the most recent, is undone
    /\ (pc = "returned_none" /\ stack # <<>>)
          => /\ pc' = "iter"
             /\ Top.giver \in DOMAIN assignments
             /\ assignments' = DelItem(assignments, Top.giver)
             /\ \A k \in 1..(Len(stack) - 1) :
                    stack[k].giver \in DOMAIN assignments'

\* C10: at every step of an attempt the giver branched on has the fewest
\* options (allowed minus the receivers committed so far) among the
\* unassigned givers; with zero options the branch fails and the most
\* recent commitment is undone.
C10_MRV == [][C10_Step]_vars

\* a branch failed under a commitment whose giver MRV chose ahead of the
\* first giver of the list
C10_Witness ==
    /\ pc = "returned_none"
    /\ stack # <<>>
    /\ Top.giver # Top.rem[1]
    /\ Top.giver \in DOMAIN assignments

----------------------------------------------------------------------------
(* Claims about main, the constraint builder and the readers *)

HasSpouse(g) == spouse[g] # NoName
Disallowed(g) == Get(disallow_recent, g, {})

\* participants - {g} - {spouse[g]} - disallow_recent[g], from main's locals
AllowedSet(g) ==
    ToSet(names) \ ({g} \cup (IF HasSpouse(g) THEN {spouse[g]} ELSE {})
                        \cup Disallowed(g))

\* C2: after a successful solve over the sets of _build_allowed, every
\* giver's receiver is not the giver, not the giver's spouse and not in
\* disallow_recent[giver]: it is in allowed[giver], which is participants
\* minus those.
C2_Constraints ==
    pc \in {"ret_ok", "written"} =>
        \A g \in ToSet(names) :
            /\ g \in DOMAIN out.dict
            /\ out.dict[g] # g
            /\ HasSpouse(g) => out.dict[g] # spouse[g]
            /\ out.dict[g] \notin Disallowed(g)
            /\ allowed[g] = AllowedSet(g)
            /\ out.dict[g] \in allowed[g]

\* an assignment was written for a roster with a couple and a giver whom
\* the history restricts
C2_Witness ==
    /\ pc = "written"
    /\ \E g \in ToSet(names) : HasSpouse(g)
    /\ \E g \in ToSet(names) : Disallowed(g) \cap ToSet(names) # {}

EmptyAllowed == {g \in ToSet(names) : AllowedSet(g) = {}}

NoSearch ==
    /\ attempt = 0
    /\ rng = seed
    /\ givers = <<>>
    /\ stack = <<>>
    /\ assignments = EmptyDict
    /\ out = Pending

UnsatReport ==
    /\ pc = "exit"
    /\ report.kind = "impossible"
    /\ report.who = SelectSeq(names, LAMBDA g : g \in EmptyAllowed)
    /\ NoSearch

MutualSpouses ==
    /\ Len(names) = 2
    /\ spouse[names[1]] = names[2]
    /\ spouse[names[2]] = names[1]

\* C3 (as claimed): a run in which some participant's allowed set is empty
\* ends as UnsatisfiableParticipant, with no search, naming exactly those
\* participants; so does a roster of two mutual spouses.
C3_Original ==
    /\ (MainDone /\ EmptyAllowed # {}) => UnsatReport
    /\ (MainDone /\ MutualSpouses) => UnsatReport

\* C3 (amended): the same, for a roster of at least two participants.
C3_Unsat ==
    /\ (MainDone /\ Len(names) >= 2 /\ EmptyAllowed # {}) => UnsatReport
    /\ (MainDone /\ MutualSpouses) => UnsatReport

\* the run of two mutual spouses ended
C3_Witness ==
    /\ pc = "exit"
    /\ MutualSpouses
    /\ Len(report.who) = 2

C7_Step ==
    \* the directory changes only by the write of a complete assignment
    /\ files' # files =>
          /\ pc = "ret_ok"
          /\ pc' = "written"
          /\ ~IsNone(out)
          /\ IsBijection(out.dict, ToSet(names))
          /\ files' = SetItem(files, year, OutputLines(out.dict))
          /\ \A g \in ToSet(names) :
                FormatLine(g, out.dict[g]) \in ToSet(files'[year])
    \* every exit leaves the directory as it was
    /\ pc' = "exit" =>
          /\ files' = files
          /\ report'.kind \in {"no_people_file", "too_few", "impossible",
                               "search_failed"}
    /\ pc' = "written" => pc = "ret_ok"

\* C7: <year>.txt is written only after the solver returned a complete
\* assignment; every failure path exits before any write, leaving the
\* directory, an existing <year>.txt included, as it was.
C7_WriteOnlyOnSuccess == [][C7_Step]_vars

\* the search failed while a file of the output's name existed
C7_Witness ==
    /\ pc = "exit"
    /\ report.kind = "search_failed"
    /\ year \in DOMAIN files
    /\ files[year] = <<FormatLine(Zed, Zed)>>

\* record i names a roster member as spouse
NamesMember(i) ==
    /\ raw_pairs[i].spouse # NoName
    /\ raw_pairs[i].spouse \in ToSet(names)

DeclaresNoSpouse(b) ==
    \A i \in 1..Len(raw_pairs) :
        raw_pairs[i].name = b => raw_pairs[i].spouse = NoName

\* C8 (as claimed): whoever names member B, who declares no spouse, is B's
\* spouse in the map; and whoever declares a member holds that member.
C8_Original ==
    pc = "people_done" =>
        \A i \in 1..Len(raw_pairs) :
            NamesMember(i) =>
                /\ spouse[raw_pairs[i].name] = raw_pairs[i].spouse
                /\ DeclaresNoSpouse(raw_pairs[i].spouse)
                      => spouse[raw_pairs[i].spouse] = raw_pairs[i].name

FirstNaming(i) ==
    \A j \in 1..(i - 1) :
        NamesMember(j) => raw_pairs[j].spouse # raw_pairs[i].spouse

LastDeclaration(i) ==
    \A j \in (i + 1)..Len(raw_pairs) :
        NamesMember(j) => raw_pairs[j].name # raw_pairs[i].name

\* C8 (amended): the first record naming member B, who declares no spouse,
\* gives B's spouse; and a participant holds the member declared in the
\* last of the participant's records that declares one.
C8_Symmetrize ==
    pc = "people_done" =>
        \A i \in 1..Len(raw_pairs) :
            NamesMember(i) =>
                /\ LastDeclaration(i)
                      => spouse[raw_pairs[i].name] = raw_pairs[i].spouse
                /\ (DeclaresNoSpouse(raw_pairs[i].spouse) /\ FirstNaming(i))
                      => spouse[raw_pairs[i].spouse] = raw_pairs[i].name

\* two participants name the same member, who declares no spouse
C8_Witness ==
    /\ pc = "people_done"
    /\ \E i, j \in 1..Len(raw_pairs) :
          /\ i < j
          /\ NamesMember(i)
          /\ NamesMember(j)
          /\ raw_pairs[i].spouse = raw_pairs[j].spouse
          /\ raw_pairs[i].name # raw_pairs[j].name
          /\ DeclaresNoSpouse(raw_pairs[i].spouse)
          /\ spouse[raw_pairs[i].spouse] = raw_pairs[i].name

\* every name of the model
NameUniverse == {Ann, Bob, Cy, JL, Zed}

\* line 107: "A -> B", "A,B", "A : B", "A - B"
Separators ==
    { <<" ", "-", ">", " ">>, <<",">>, <<" ", ":", " ">>, <<" ", "-", " ">> }

\* the pairs a file records: its lines of one of the accepted forms
Recorded(lines) ==
    {pr \in NameUniverse \X NameUniverse :
        \E sep \in Separators : (pr[1] \o sep \o pr[2]) \in ToSet(lines)}

\* year y is one of the years_back most recent years before this one
InWindow(y) ==
    /\ y \in DOMAIN files
    /\ y < year
    /\ Cardinality({z \in DOMAIN files : y < z /\ z < year}) < years_back

RecentReceivers(g) ==
    UNION {{pr[2] : pr \in {q \in Recorded(files[y]) : q[1] = g}} :
               y \in {z \in DOMAIN files : InWindow(z)}}

\* C9: _read_history_files returns for each giver exactly the receivers
\* recorded for the giver in the years_back most recent year files before
\* the current year; and no pair recorded in the window is assigned again.
C9_HistoryWindow ==
    /\ pc = "main_history" =>
          \A g \in NameUniverse : Disallowed(g) = RecentReceivers(g)
    /\ pc = "written" =>
          \A g \in ToSet(names) : out.dict[g] \notin RecentReceivers(g)

\* C9 for the names that hold no separator: every roster without J-L
C9_SeparatorFree ==
    JL \notin ToSet(UniqueNames(raw_pairs, <<>>)) => C9_HistoryWindow

\* with years_back = 1 a pair of two years ago is assigned again
C9_WindowAdvanced ==
    /\ pc = "written"
    /\ years_back = 1
    /\ year - 2 \in DOMAIN files
    /\ year - 1 \in DOMAIN files
    /\ JL \notin ToSet(names)
    /\ \E g \in ToSet(names) :
          <<g, out.dict[g]>> \in Recorded(files[year - 2])

----------------------------------------------------------------------------
(* C11: termination and the retry loop *)

IsPermutation(sq, S) == Len(sq) = Cardinality(S) /\ ToSet(sq) = S

C11_Bounded ==
    \* at most max_tries attempts; the walk is never deeper than the roster
    /\ attempt <= max_tries
    /\ Len(stack) <= Len(names)
    \* between two attempts nothing of the failed one is left
    /\ pc = "loop" => stack = <<>> /\ assignments = EmptyDict /\ out = Pending
    \* success: the dict of the attempt that found it, and nothing runs after
    /\ pc = "ret_ok" =>
          /\ attempt \in 1..max_tries
          /\ out = Some(assignments)
          /\ IsBijection(assignments, ToSet(names))
          /\ ~ENABLED Next
    \* the loop's failure (line 191): every one of the max_tries attempts ran
    /\ pc = "ret_exhausted" =>
          /\ attempt = max_tries
          /\ IsNone(out)
          /\ ~ENABLED Next
    \* the quick unsat return (line 153) comes before the loop
    /\ pc = "ret_unsat" => attempt = 0 /\ ~ENABLED Next

C11_Step ==
    /\ attempt' \in {attempt, attempt + 1}
    \* an attempt starts from the loop, with no result yet, in the state
    \* (the givers shuffled again, every receiver available, no assignment)
    /\ attempt' = attempt + 1 =>
          /\ pc = "loop" /\ pc' = "call"
          /\ out = Pending
          /\ givers' = Shuffle(givers, rng).list
          /\ IsPermutation(givers', ToSet(names))
          /\ arg' = [rem |-> givers', avail |-> ToSet(names)]
          /\ assignments' = EmptyDict
          /\ stack' = <<>>
    \* the loop is entered again only when the outermost call returned None
    /\ (pc' = "loop" /\ attempt >= 1) =>
          pc = "returned_none" /\ stack = <<>>
    \* failure is reported from the loop only
    /\ pc' = "ret_exhausted" => pc = "loop" /\ attempt = max_tries

====
